---- MODULE Spec2Model ----
(***************************************************************************)
(* A model of src/tplink_cloud_api.py: the TPLink cloud client.  One       *)
(* client instance talks to a cloud server through send_request.  The      *)
(* methods are translated as operators that return the outcome of one     *)
(* call (exception or return value, the requests issued in order, the      *)
(* responses received, the server's relay state afterwards); each action  *)
(* applies one public method to the instance.                              *)
(*                                                                         *)
(* Python values are modelled as records.  None is PyNone, a list is       *)
(* [tag |-> "list", items |-> <<...>>], a bool or str return value is      *)
(* tagged the same way, and a dict is a record whose fields are its keys   *)
(* (a missing key is a field outside DOMAIN, which raises KeyError).  A    *)
(* response body is modelled as the JSON document it encodes.              *)
(* form_url and the command line (main) are not modelled.                  *)
(***************************************************************************)
EXTENDS Integers, Sequences, FiniteSets, TLC

VARIABLES
    pc,           \* "new": no instance yet; "ready": constructed; "failed": __init__ raised
    username,     \* self.username
    password,     \* self.password
    token,        \* self.token (NoToken while the attribute is unset)
    device_list,  \* self.device_list
    relay,        \* the server: relay state of each device, by deviceId
    listReqs,     \* number of getDeviceList requests issued so far (request counter)
    last          \* the outcome of the latest method call

vars == <<pc, username, password, token, device_list, relay, listReqs, last>>

(***************************** bounds ***************************************)

\* The longest device list the server returns.
MaxDevices == 2
\* The cap on getDeviceList requests over the life of the instance.
MaxFetches == 3

(***************************** Python values ********************************)

PyNone == [tag |-> "None"]
PyList(s) == [tag |-> "list", items |-> s]
PyBool(b) == [tag |-> "bool", b |-> b]
PyStr(s) == [tag |-> "str", s |-> s]

\* Python truthiness of self.device_list: None and the empty list are falsy.
Truthy(v) == v.tag = "list" /\ Len(v.items) > 0

NoToken == ""
NoExc == [type |-> "", arg |-> ""]
Raise(type, arg) == [type |-> type, arg |-> arg]

(***************************** the server's data ****************************)

CloudUrl == "https://wap.tplinkcloud.com"

DevLamp == [alias |-> "Lamp", deviceId |-> "D1", appServerUrl |-> "https://x"]
DevLower == [alias |-> "lamp", deviceId |-> "D2", appServerUrl |-> "https://y"]
DevTwin == [alias |-> "Lamp", deviceId |-> "D3", appServerUrl |-> "https://z"]

\* The devices an account may hold: two share an alias, two differ in case only.
Devices == {DevLamp, DevLower, DevTwin}
DeviceIds == {d.deviceId : d \in Devices}
\* The aliases a caller asks for; "Fan" is never in a list.
Aliases == {"Lamp", "lamp", "Fan"}
Tokens == {"T1", "T2"}
Credentials == {[username |-> "user@example.com", password |-> "secret"]}

Injective(s) == \A i, j \in 1..Len(s) : s[i] = s[j] => i = j
\* Every list of distinct devices of length 0..MaxDevices.
DeviceLists ==
    UNION {{s \in [1..n -> Devices] : Injective(s)} : n \in 0..MaxDevices}

\* How a request ends: answered with error_code 0, answered with a non-zero
\* error_code, or urlopen raising (DNS, TLS, refused, timeout).
Kinds == {"ok", "err", "fail"}
\* The device's own err_code inside responseData of a set_relay_state answer.
DevErrs == {0, -1}

ErrBody == [error_code |-> 1, msg |-> "server error"]

\* What the server is asked to choose for one request: how it ends and, for an
\* answer with error_code 0, the token, device list or device err_code it holds.
Input(kind, tok, list, devErr) ==
    [kind |-> kind, token |-> tok, list |-> list, devErr |-> devErr]
Refusals == {Input(k, NoToken, <<>>, 0) : k \in Kinds \ {"ok"}}
LoginInputs == {Input("ok", t, <<>>, 0) : t \in Tokens} \cup Refusals
ListInputs == {Input("ok", NoToken, l, 0) : l \in DeviceLists} \cup Refusals
RelayInputs == {Input("ok", NoToken, <<>>, e) : e \in DevErrs} \cup Refusals
SysInfoInputs == {Input("ok", NoToken, <<>>, 0)} \cup Refusals

(***************************** requests *************************************)

BaseParams ==
    [appName |-> "Kasa_Android", termID |-> "TermID", appVer |-> "1.4.4.607",
     ospf |-> "Android+6.0.1", netType |-> "wifi", locale |-> "es_ES"]
TokenParams(tok) ==
    [appName |-> "Kasa_Android", termID |-> "TermID", appVer |-> "1.4.4.607",
     ospf |-> "Android+6.0.1", netType |-> "wifi", locale |-> "es_ES", token |-> tok]

UserAgent == "Dalvik/2.1.0 (Linux; U; Android 6.0.1; A0001 Build/M4B30X)"
Headers == [UserAgent |-> UserAgent, ContentType |-> "application/json"]
NoCacheHeaders ==
    [cacheControl |-> "no-cache", UserAgent |-> UserAgent, ContentType |-> "application/json"]

LoginRequest(user, pass) ==
    [method |-> "POST", url |-> CloudUrl, params |-> BaseParams,
     data |-> [method |-> "login", url |-> CloudUrl,
               params |-> [appType |-> "Kasa_Android", cloudPassword |-> pass,
                           cloudUserName |-> user, terminalUUID |-> "TermID"]],
     headers |-> Headers]

ListRequest_notoken(tok) ==
    [method |-> "POST", url |-> CloudUrl, params |-> BaseParams,
     headers |-> Headers, data |-> [method |-> "getDeviceList"]]

ListRequest(tok) ==
    [method |-> "POST", url |-> CloudUrl, params |-> TokenParams(tok),
     headers |-> Headers, data |-> [method |-> "getDeviceList"]]

RelayRequest_cloudUrl(device, tok, state) ==
    [method |-> "POST", url |-> CloudUrl, params |-> TokenParams(tok),
     headers |-> NoCacheHeaders,
     data |-> [method |-> "passthrough",
               params |-> [deviceId |-> device.deviceId,
                           requestData |-> [system |-> [set_relay_state |-> [state |-> state]]]]]]

RelayRequest(device, tok, state) ==
    [method |-> "POST", url |-> device.appServerUrl, params |-> TokenParams(tok),
     headers |-> NoCacheHeaders,
     data |-> [method |-> "passthrough",
               params |-> [deviceId |-> device.deviceId,
                           requestData |-> [system |-> [set_relay_state |-> [state |-> state]]]]]]

SysInfoRequest(device, tok) ==
    [method |-> "POST", url |-> device.appServerUrl, params |-> TokenParams(tok),
     headers |-> NoCacheHeaders,
     data |-> [method |-> "passthrough",
               params |-> [deviceId |-> device.deviceId,
                           requestData |-> [system |-> [get_sysinfo |-> PyNone],
                                            emeter |-> [get_realtime |-> PyNone]]]]]

IsRelayRequest(req) ==
    /\ req.data.method = "passthrough"
    /\ "set_relay_state" \in DOMAIN req.data.params.requestData.system
IsSysInfoRequest(req) ==
    /\ req.data.method = "passthrough"
    /\ "get_sysinfo" \in DOMAIN req.data.params.requestData.system

(***************************** the server ***********************************)

\* The result field of an answer with error_code 0.  A set_relay_state the
\* device accepts (err_code 0) is stored; get_sysinfo reports what is stored.
ServerResult(request, inp, rl) ==
    IF request.data.method = "login" THEN [token |-> inp.token]
    ELSE IF request.data.method = "getDeviceList" THEN [deviceList |-> PyList(inp.list)]
    ELSE IF IsRelayRequest(request)
    THEN [responseData |-> [system |-> [set_relay_state |-> [err_code |-> inp.devErr]]]]
    ELSE [responseData |->
            [system |-> [get_sysinfo |->
                [relay_state |-> rl[request.data.params.deviceId], err_code |-> 0]]]]

ServerRelay(request, inp, rl) ==
    IF inp.kind = "ok" /\ IsRelayRequest(request) /\ inp.devErr = 0
    THEN [rl EXCEPT ![request.data.params.deviceId] =
              request.data.params.requestData.system.set_relay_state.state]
    ELSE rl

\* urllib.request.urlopen: the response received, or kind "fail" when it raises.
urlopen(request, inp, rl) ==
    [kind |-> inp.kind,
     json |-> IF inp.kind = "ok" THEN [error_code |-> 0, result |-> ServerResult(request, inp, rl)]
              ELSE IF inp.kind = "err" THEN ErrBody
              ELSE PyNone]

(***************************** TPLink ***************************************)

\* send_request: the value returned or the exception raised, with the
\* response received and the server's relay state afterwards.
send_request(request, inp, rl) ==
    LET response == urlopen(request, inp, rl)
        after == ServerRelay(request, inp, rl)
    IN  IF response.kind = "fail"
        THEN [exc |-> Raise("URLError", "urlopen error"), value |-> PyNone,
              resp |-> response, relay |-> after]
        ELSE IF response.json.error_code # 0
        THEN [exc |-> NoExc, value |-> [error |-> response.json],
              resp |-> response, relay |-> after]
        ELSE [exc |-> NoExc, value |-> response.json.result,
              resp |-> response, relay |-> after]

\* The outcome of one method call.
Outcome(exc, value, reqs, resps, rl, dl) ==
    [exc |-> exc, value |-> value, reqs |-> reqs, resps |-> resps,
     relay |-> rl, device_list |-> dl]

\* result[key] on what send_request returned, as the outcome of the caller
\* that returns it (or stores it, see get_device_list).
Subscript(r, key, request, dl) ==
    IF r.exc # NoExc
    THEN Outcome(r.exc, PyNone, <<request>>, <<r.resp>>, r.relay, dl)
    ELSE IF key \notin DOMAIN r.value
    THEN Outcome(Raise("KeyError", key), PyNone, <<request>>, <<r.resp>>, r.relay, dl)
    ELSE Outcome(NoExc, r.value[key], <<request>>, <<r.resp>>, r.relay, dl)

get_device_list(dl, tok, inp, rl) ==
    IF Truthy(dl)
    THEN Outcome(NoExc, dl, <<>>, <<>>, rl, dl)
    ELSE LET request == ListRequest(tok)
             got == Subscript(send_request(request, inp, rl), "deviceList", request, dl)
         IN  IF got.exc # NoExc THEN got
             ELSE [got EXCEPT !.device_list = got.value]

\* Lower-casing of an alias, over the aliases of the model.
Lower(s) == IF s = "Lamp" THEN "lamp" ELSE s

RECURSIVE scan_ci(_, _, _)
scan_ci(items, i, alias) ==
    IF i > Len(items) THEN PyNone
    ELSE IF Lower(items[i].alias) = Lower(alias) THEN items[i]
    ELSE scan_ci(items, i + 1, alias)

\* The for loop of get_device from position i on.
RECURSIVE scan(_, _, _)
scan(items, i, alias) ==
    IF i > Len(items) THEN PyNone
    ELSE IF items[i].alias = alias THEN items[i]
    ELSE scan(items, i + 1, alias)

get_device_ci(dl, alias) == scan_ci(dl.items, 1, alias)

get_device_fallback(dl, alias) ==
    IF scan(dl.items, 1, alias) = PyNone /\ Len(dl.items) > 0
    THEN dl.items[1]
    ELSE scan(dl.items, 1, alias)

get_device(dl, alias) == scan(dl.items, 1, alias)

NotFound(alias) == Raise("RuntimeError", "Cannot find device: " \o alias)

set_relay_state(dl, tok, alias, state, inp, rl) ==
    LET device == get_device(dl, alias)
    IN  IF device = PyNone
        THEN Outcome(NotFound(alias), PyNone, <<>>, <<>>, rl, dl)
        ELSE LET request == RelayRequest(device, tok, state)
             IN  Subscript(send_request(request, inp, rl), "responseData", request, dl)

turn_on(dl, tok, alias, inp, rl) == set_relay_state(dl, tok, alias, 1, inp, rl)

turn_off_sets_on(dl, tok, alias, inp, rl) == set_relay_state(dl, tok, alias, 1, inp, rl)

turn_off(dl, tok, alias, inp, rl) == set_relay_state(dl, tok, alias, 0, inp, rl)

\* turn_on first, turn_off second.
powercycle_swapped(dl, tok, alias, inp1, inp2, rl) ==
    LET on == turn_on(dl, tok, alias, inp1, rl)
    IN  IF on.exc # NoExc THEN on
        ELSE LET off == turn_off(dl, tok, alias, inp2, on.relay)
             IN  Outcome(off.exc, IF off.exc # NoExc THEN PyNone ELSE PyStr("Done"),
                         on.reqs \o off.reqs, on.resps \o off.resps, off.relay, dl)

\* A failed turn_off is swallowed and turn_on is issued all the same.
powercycle_continue(dl, tok, alias, inp1, inp2, rl) ==
    LET off == turn_off(dl, tok, alias, inp1, rl)
        on == turn_on(dl, tok, alias, inp2, off.relay)
    IN  IF get_device(dl, alias) = PyNone THEN off
        ELSE Outcome(on.exc, IF on.exc # NoExc THEN PyNone ELSE PyStr("Done"),
                     off.reqs \o on.reqs, off.resps \o on.resps, on.relay, dl)

\* turn_off, time.sleep(5) (no effect on the state), turn_on, return 'Done'.
\* An exception of either call ends the method there.
powercycle(dl, tok, alias, inp1, inp2, rl) ==
    LET off == turn_off(dl, tok, alias, inp1, rl)
    IN  IF off.exc # NoExc THEN off
        ELSE LET on == turn_on(dl, tok, alias, inp2, off.relay)
             IN  Outcome(on.exc, IF on.exc # NoExc THEN PyNone ELSE PyStr("Done"),
                         off.reqs \o on.reqs, off.resps \o on.resps, on.relay, dl)

get_sys_info(dl, tok, alias, inp, rl) ==
    LET device == get_device(dl, alias)
    IN  IF device = PyNone
        THEN Outcome(NotFound(alias), PyNone, <<>>, <<>>, rl, dl)
        ELSE LET request == SysInfoRequest(device, tok)
             IN  Subscript(send_request(request, inp, rl), "responseData", request, dl)

is_on(dl, tok, alias, inp, rl) ==
    LET state == get_sys_info(dl, tok, alias, inp, rl)
    IN  IF state.exc # NoExc THEN state
        ELSE [state EXCEPT !.value = PyBool(state.value.system.get_sysinfo.relay_state = 1)]

is_off(dl, tok, alias, inp, rl) ==
    LET on == is_on(dl, tok, alias, inp, rl)
    IN  IF on.exc # NoExc THEN on
        ELSE [on EXCEPT !.value = PyBool(~on.value.b)]

\* __init__: login, store the token, fetch the device list.  The outcome
\* carries the attributes of the instance as the constructor leaves them.
init(user, pass, inp1, inp2, rl) ==
    LET request == LoginRequest(user, pass)
        login == Subscript(send_request(request, inp1, rl), "token", request, PyNone)
    IN  IF login.exc # NoExc
        THEN [login EXCEPT !.value = PyNone] @@ [token |-> NoToken]
        ELSE LET list == get_device_list(PyNone, login.value, inp2, login.relay)
             IN  Outcome(list.exc, PyNone, login.reqs \o list.reqs,
                         login.resps \o list.resps, list.relay, list.device_list)
                 @@ [token |-> login.value]

(***************************** actions **************************************)

NoCall ==
    [op |-> "", alias |-> "", exc |-> NoExc, value |-> PyNone, reqs |-> <<>>, resps |-> <<>>]

ListRequestsIn(reqs) ==
    Cardinality({i \in 1..Len(reqs) : reqs[i].data.method = "getDeviceList"})

\* The bookkeeping of every call: its outcome, the server's state after it.
Done(op, alias, o) ==
    /\ last' = [op |-> op, alias |-> alias, exc |-> o.exc, value |-> o.value,
                reqs |-> o.reqs, resps |-> o.resps]
    /\ relay' = o.relay
    /\ listReqs' = listReqs + ListRequestsIn(o.reqs)

Init ==
    /\ pc = "new"
    /\ username = "" /\ password = ""
    /\ token = NoToken
    /\ device_list = PyNone
    /\ relay \in [DeviceIds -> {0, 1}]
    /\ listReqs = 0
    /\ last = NoCall

Construct ==
    /\ pc = "new"
    /\ \E c \in Credentials, i1 \in LoginInputs, i2 \in ListInputs :
          LET o == init(c.username, c.password, i1, i2, relay)
          IN  /\ username' = c.username /\ password' = c.password
              /\ token' = o.token
              /\ device_list' = o.device_list
              /\ pc' = IF o.exc = NoExc THEN "ready" ELSE "failed"
              /\ Done("__init__", "", o)

GetDeviceList ==
    /\ pc = "ready"
    /\ Truthy(device_list) \/ listReqs < MaxFetches
    /\ \E i \in IF Truthy(device_list) THEN {Input("ok", NoToken, <<>>, 0)} ELSE ListInputs :
          LET o == get_device_list(device_list, token, i, relay)
          IN  /\ device_list' = o.device_list
              /\ Done("get_device_list", "", o)
    /\ UNCHANGED <<pc, username, password, token>>

GetDevice ==
    /\ pc = "ready"
    /\ \E a \in Aliases :
          Done("get_device", a,
               Outcome(NoExc, get_device(device_list, a), <<>>, <<>>, relay, device_list))
    /\ UNCHANGED <<pc, username, password, token, device_list>>

TurnOn ==
    /\ pc = "ready"
    /\ \E a \in Aliases, i \in RelayInputs :
          Done("turn_on", a, turn_on(device_list, token, a, i, relay))
    /\ UNCHANGED <<pc, username, password, token, device_list>>

TurnOff ==
    /\ pc = "ready"
    /\ \E a \in Aliases, i \in RelayInputs :
          Done("turn_off", a, turn_off(device_list, token, a, i, relay))
    /\ UNCHANGED <<pc, username, password, token, device_list>>

Powercycle ==
    /\ pc = "ready"
    /\ \E a \in Aliases, i1 \in RelayInputs :
       \E i2 \in IF i1.kind = "ok" THEN RelayInputs ELSE {i1} :
          Done("powercycle", a, powercycle(device_list, token, a, i1, i2, relay))
    /\ UNCHANGED <<pc, username, password, token, device_list>>

GetSysInfo ==
    /\ pc = "ready"
    /\ \E a \in Aliases, i \in SysInfoInputs :
          Done("get_sys_info", a, get_sys_info(device_list, token, a, i, relay))
    /\ UNCHANGED <<pc, username, password, token, device_list>>

IsOn ==
    /\ pc = "ready"
    /\ \E a \in Aliases, i \in SysInfoInputs :
          Done("is_on", a, is_on(device_list, token, a, i, relay))
    /\ UNCHANGED <<pc, username, password, token, device_list>>

IsOff ==
    /\ pc = "ready"
    /\ \E a \in Aliases, i \in SysInfoInputs :
          Done("is_off", a, is_off(device_list, token, a, i, relay))
    /\ UNCHANGED <<pc, username, password, token, device_list>>

Next ==
    \/ Construct
    \/ GetDeviceList
    \/ GetDevice
    \/ TurnOn
    \/ TurnOff
    \/ Powercycle
    \/ GetSysInfo
    \/ IsOn
    \/ IsOff

Spec == Init /\ [][Next]_vars

(***************************** notions of the claims ************************)

\* The cached list's entries (none while the attribute holds None).
Items == IF device_list.tag = "list" THEN device_list.items ELSE <<>>
Matches(a) == {i \in 1..Len(Items) : Items[i].alias = a}
Present(a) == Matches(a) # {}
\* The first entry, in list order, whose alias is exactly a.
FirstMatch(a) == Items[CHOOSE i \in Matches(a) : \A j \in Matches(a) : i <= j]

Returned == last.op # "" /\ last.exc = NoExc
Requests == 1..Len(last.reqs)
Failed(resp) == resp.kind # "ok"
ControlOps == {"turn_on", "turn_off", "powercycle", "get_sys_info", "is_on", "is_off"}
\* Request i of the latest call sets the relay of device d to state s.
SetsRelay(i, d, s) ==
    /\ IsRelayRequest(last.reqs[i])
    /\ last.reqs[i].data.params.deviceId = d.deviceId
    /\ last.reqs[i].data.params.requestData.system.set_relay_state.state = s
\* The device accepted the set_relay_state answered in response i.
Stored(i) ==
    /\ last.resps[i].kind = "ok"
    /\ last.resps[i].json.result.responseData.system.set_relay_state.err_code = 0
SysInfoOk == Input("ok", NoToken, <<>>, 0)

(***************************** C1 *******************************************)

\* C1 (as claimed): whatever list the server returns, the empty one included,
\* the instance issues at most one getDeviceList request in its life, and a
\* get_device_list call on the constructed instance issues none and returns
\* the cached list.
C1_AtMostOneListRequest ==
    /\ listReqs <= 1
    /\ last.op = "get_device_list" => last.reqs = <<>> /\ last.value = device_list

(***************************** C2 *******************************************)

\* C2 (as claimed): a call one of whose requests is answered with a non-zero
\* error_code ends in a server error that carries the raw response body, and
\* does not return normally.
C2_ServerErrorCarriesBody ==
    \A i \in Requests :
        last.resps[i].kind = "err" =>
            /\ last.exc.type \in {"ServerError", "RuntimeError"}
            /\ last.exc.arg = last.resps[i].json

(***************************** C3 *******************************************)

\* C3: when no entry of the cached list has the requested alias, turn_on,
\* turn_off, powercycle, get_sys_info, is_on and is_off raise the
\* device-not-found error and issue no request.
C3_NotFoundNoRequest ==
    last.op \in ControlOps /\ ~Present(last.alias) =>
        /\ last.exc = [type |-> "RuntimeError", arg |-> "Cannot find device: " \o last.alias]
        /\ last.reqs = <<>>

C3_Witness ==
    /\ last.op = "powercycle"
    /\ Len(Items) > 0
    /\ ~Present(last.alias)
    /\ last.exc.type = "RuntimeError"

(***************************** C4 *******************************************)

\* C4 (as claimed): powercycle of a present alias issues exactly two
\* relay-state requests to that device, state=0 then state=1, and returns
\* 'Done' whatever the two responses hold.
C4_AlwaysTwoRequestsAndDone ==
    last.op = "powercycle" /\ Present(last.alias) =>
        /\ Len(last.reqs) = 2
        /\ SetsRelay(1, FirstMatch(last.alias), 0)
        /\ SetsRelay(2, FirstMatch(last.alias), 1)
        /\ last.exc = NoExc
        /\ last.value = PyStr("Done")

\* C4 (amended): powercycle of a present alias issues the state=0 request to
\* that device first and, exactly when that request succeeds, the state=1
\* request second, never more; when both succeed it returns 'Done' whatever
\* their responseData hold, and otherwise it raises.
C4_TwoRequestsWhenBothSucceed ==
    last.op = "powercycle" /\ Present(last.alias) =>
        /\ Len(last.reqs) \in {1, 2}
        /\ Len(last.resps) = Len(last.reqs)
        /\ SetsRelay(1, FirstMatch(last.alias), 0)
        /\ Len(last.reqs) = 2 <=> ~Failed(last.resps[1])
        /\ Len(last.reqs) = 2 => SetsRelay(2, FirstMatch(last.alias), 1)
        /\ IF \A i \in Requests : ~Failed(last.resps[i])
           THEN Len(last.reqs) = 2 /\ last.exc = NoExc /\ last.value = PyStr("Done")
           ELSE last.exc # NoExc /\ last.value = PyNone

C4_Witness ==
    /\ last.op = "powercycle"
    /\ Len(last.reqs) = 2
    /\ last.value = PyStr("Done")
    /\ ~Stored(1)
    /\ Stored(2)

(***************************** C5 *******************************************)

\* C5 (as claimed): get_device returns the unique entry whose alias is
\* exactly the one asked for (no other entry has that alias), and the
\* not-found value when no entry has it.
C5_ReturnsTheUniqueMatch ==
    last.op = "get_device" =>
        IF Present(last.alias)
        THEN /\ last.value # PyNone
             /\ last.value.alias = last.alias
             /\ \A i \in 1..Len(Items) : Items[i].alias = last.alias => Items[i] = last.value
        ELSE last.value = PyNone

\* C5 (amended): get_device returns the first entry, in list order, whose
\* alias is exactly (case-sensitively) the one asked for, which is the only
\* such entry when aliases are unique, and the not-found value when no entry
\* has that alias; it never returns an entry with another alias.
C5_ReturnsTheFirstMatch ==
    last.op = "get_device" =>
        IF Present(last.alias)
        THEN /\ last.value = FirstMatch(last.alias)
             /\ last.value.alias = last.alias
        ELSE last.value = PyNone

C5_Witness ==
    /\ last.op = "get_device"
    /\ Cardinality(Matches(last.alias)) = 2
    /\ last.value = Items[1]

(***************************** C6 *******************************************)

\* C6: with a server that stores the state of the last accepted
\* set_relay_state and reports it in get_sysinfo.relay_state, is_on called
\* after a turn_on of the same alias returns True and after a turn_off
\* returns False; is_on returns whether the stored state is 1, and is_off
\* returns the negation of what is_on returns in the same server state.
C6_IsOnFollowsRelay ==
    /\ last.op = "turn_on" /\ Returned /\ Stored(1) =>
          is_on(device_list, token, last.alias, SysInfoOk, relay).value = PyBool(TRUE)
    /\ last.op = "turn_off" /\ Returned /\ Stored(1) =>
          is_on(device_list, token, last.alias, SysInfoOk, relay).value = PyBool(FALSE)
    /\ last.op = "is_on" /\ Returned =>
          last.value = PyBool(relay[FirstMatch(last.alias).deviceId] = 1)
    /\ last.op = "is_off" /\ Returned =>
          /\ last.value = PyBool(relay[FirstMatch(last.alias).deviceId] # 1)
          /\ last.value.b = ~is_on(device_list, token, last.alias, SysInfoOk, relay).value.b

C6_Witness ==
    /\ last.op = "turn_off"
    /\ Returned
    /\ Stored(1)
    /\ Len(Items) = 2
    /\ \E d \in DeviceIds : relay[d] = 1

(***************************** C7 *******************************************)

\* C7: every passthrough request for an alias goes to the appServerUrl of
\* the device resolved for that alias and carries that device's deviceId;
\* login and getDeviceList requests go to https://wap.tplinkcloud.com.
C7_RequestsGoToTheResolvedDevice ==
    \A i \in Requests :
        IF last.reqs[i].data.method = "passthrough"
        THEN /\ Present(last.alias)
             /\ last.reqs[i].url = FirstMatch(last.alias).appServerUrl
             /\ last.reqs[i].data.params.deviceId = FirstMatch(last.alias).deviceId
        ELSE /\ last.reqs[i].data.method \in {"login", "getDeviceList"}
             /\ last.reqs[i].url = "https://wap.tplinkcloud.com"

C7_Witness ==
    /\ last.op = "turn_on"
    /\ Len(Items) = 2
    /\ Present(last.alias)
    /\ FirstMatch(last.alias) = Items[2]
    /\ Len(last.reqs) = 1
    /\ last.reqs[1].url = Items[2].appServerUrl
    /\ last.reqs[1].url # Items[1].appServerUrl

(***************************** C8 *******************************************)

\* C8 (as claimed): when the login request is answered with a non-zero
\* error_code, __init__ raises a dedicated authentication (or server) error,
\* stores no token and issues no getDeviceList request.
C8_LoginErrorIsDedicated ==
    last.op = "__init__" /\ Len(last.resps) >= 1 /\ last.resps[1].kind = "err" =>
        /\ last.exc.type \in {"AuthenticationError", "ServerError", "RuntimeError"}
        /\ token = NoToken
        /\ Len(last.reqs) = 1
        /\ listReqs = 0

(***************************** C9 *******************************************)

\* What every state shows of the token: nothing is requested before
\* __init__; login is the first request, only __init__ issues it, and it
\* has no token parameter; every other request carries self.token, which is
\* the token of the login answer.
TokenOnRequests ==
    /\ pc = "new" => last = NoCall /\ listReqs = 0 /\ token = NoToken
    /\ last.op = "__init__" =>
          /\ Len(last.reqs) >= 1
          /\ last.reqs[1].data.method = "login"
          /\ ~Failed(last.resps[1]) => token = last.resps[1].json.result.token
          /\ Failed(last.resps[1]) => token = NoToken
    /\ \A i \in Requests :
          IF last.reqs[i].data.method = "login"
          THEN /\ last.op = "__init__" /\ i = 1
               /\ "token" \notin DOMAIN last.reqs[i].params
          ELSE /\ "token" \in DOMAIN last.reqs[i].params
               /\ last.reqs[i].params.token = token
               /\ token \in Tokens

\* C9: the login request is the first request and carries no token; the
\* token is written once, from the login result, and never changes; every
\* request after login carries that token.
C9_TokenWrittenOnceAndSent ==
    /\ []TokenOnRequests
    /\ [][pc # "new" => token' = token]_vars

C9_Witness ==
    /\ last.op = "get_device_list"
    /\ Len(last.reqs) = 1
    /\ last.reqs[1].params.token = "T2"
    /\ listReqs = 3

(***************************** C10 ******************************************)

\* C10: nothing is retried or compensated.  A call whose request fails
\* (non-zero error_code, or no answer) raises, and that request is its last.
\* In powercycle a failed state=0 request is the only request; a stored
\* state=0 followed by a failed state=1 leaves the device off; 'Done' is
\* returned only after both requests succeeded, state=0 then state=1.
C10_NoRetryAfterFailure ==
    /\ Len(last.resps) = Len(last.reqs)
    /\ \A i \in Requests :
          Failed(last.resps[i]) => last.exc # NoExc /\ i = Len(last.reqs)
    /\ last.op = "powercycle" /\ Len(last.reqs) >= 1 /\ Failed(last.resps[1]) =>
          Len(last.reqs) = 1 /\ last.value # PyStr("Done")
    /\ last.op = "powercycle" /\ Len(last.reqs) = 2 /\ Failed(last.resps[2]) /\ Stored(1) =>
          /\ relay[FirstMatch(last.alias).deviceId] = 0
          /\ last.value # PyStr("Done")
    /\ last.op = "powercycle" /\ last.value = PyStr("Done") =>
          /\ Len(last.reqs) = 2
          /\ \A i \in Requests : ~Failed(last.resps[i])
          /\ SetsRelay(1, FirstMatch(last.alias), 0)
          /\ SetsRelay(2, FirstMatch(last.alias), 1)

C10_Witness ==
    /\ last.op = "powercycle"
    /\ Len(last.reqs) = 2
    /\ Stored(1)
    /\ Failed(last.resps[2])
    /\ last.exc # NoExc
====
